---- MODULE Spec2Model ----
(***************************************************************************)
(* GeeCache: a byte-bounded LRU store (package lru), a consistent-hash     *)
(* ring (package consistenthash) and the Group / HTTPPool orchestration    *)
(* (package geecache), modelled as state machines.                         *)
(*                                                                         *)
(* Strings are sequences of one-character strings, so that len(), string   *)
(* concatenation, URL escaping and path splitting are computed as the Go   *)
(* code computes them.  A Go pointer that may be nil is a sequence of      *)
(* length 0 (nil) or 1 (the object pointed to).                            *)
(***************************************************************************)
EXTENDS Integers, Sequences, FiniteSets, TLC

VARIABLES
    c,          \* SpecLru: one lru.Cache
    touched,    \* SpecLru: keys in order of their last Add / successful Get, latest first
    lruLast,    \* SpecLru: the last call made on c and what it returned
    hash,       \* the hash function of the rings: string -> uint32
    ring1,      \* SpecRing: a consistenthash.Map and the Add calls made on it
    ring2,      \* SpecRing: a second Map, constructed independently
    ringLast,   \* SpecRing: the last Map.Get made on both Maps and its results
    groups,     \* SpecCluster: per node, the registry of Groups of that process
    pools,      \* SpecCluster: per node, its HTTPPool
    last,       \* SpecCluster: the last top-level Group.Get and what it did
    pool,       \* SpecPool: one HTTPPool
    poolMu,     \* SpecPool: the pool's mutex mu: nil or the goroutine holding it
    poolProc,   \* SpecPool: per goroutine, its call of Set or PickPeer and where it is
    poolSets,   \* SpecPool: the Set calls in the order they took mu, and those returned
    served,     \* SpecServe: the last request a pool's handler served and its response
    maincache,  \* SpecConc: the cache (mutex apart) of one Group
    cacheMu,    \* SpecConc: the cache's mutex mu: nil or the goroutine holding it
    caller,     \* SpecConc: per goroutine, its call of add, get or Group.Get
    shadow,     \* SpecConc: the calls made, counted, and run one at a time
    heap,       \* SpecAlias: the byte arrays allocated, by address
    aliasCache, \* SpecAlias: the cache of one Group, its values as they were stored
    backing,    \* SpecAlias: per key, the address of b in the ByteView last stored
    observed    \* SpecAlias: the last Group.Get and the bytes its ByteView holds

vars == <<c, touched, lruLast, hash, ring1, ring2, ringLast, groups, pools, last,
          pool, poolMu, poolProc, poolSets, served,
          maincache, cacheMu, caller, shadow,
          heap, aliasCache, backing, observed>>

-----------------------------------------------------------------------------
(* Bounds and input sets *)

MaxValLen == 2
MaxBytes == 5
MaxReplicas == 2
MaxHash == 2
MaxAddCalls == 2
MaxCacheBytes == 3
PoolReplicas == 1
MaxPoolProcs == 2
MaxPoolCalls == 3
MaxRequests == 2
MaxCallers == 2
MaxConcCalls == 3
MaxPoolHash == 1
MaxHeap == 4

Bytes == {1, 2}

RECURSIVE SeqsUpTo(_, _)
SeqsUpTo(S, n) ==
    IF n = 0 THEN {<<>>}
    ELSE LET shorter == SeqsUpTo(S, n - 1)
         IN  shorter \cup {Append(s, x) : s \in {t \in shorter : Len(t) = n - 1}, x \in S}

\* []byte values a caller may store
Values == SeqsUpTo(Bytes, MaxValLen)

\* keys used against the bare lru.Cache
LruKeys == {<<"a">>, <<"b">>, <<"c", "c">>}

NoKey == <<>>
NoValue == <<>>

Range(seq) == {seq[i] : i \in 1..Len(seq)}

-----------------------------------------------------------------------------
(* package lru *)

\* lru.New: an empty cache; OnEvicted is TRUE when a callback is configured
New(maxBytes, OnEvicted) ==
    [maxBytes  |-> maxBytes,
     nBytes    |-> 0,
     ll        |-> <<>>,      \* container/list, front first; elements are *Entry
     cache     |-> {},        \* the keys of map[string]*list.Element
     OnEvicted |-> OnEvicted,
     evicted   |-> <<>>]      \* the calls made to OnEvicted, in order

Entry(key, value) == [key |-> key, value |-> value]

\* mutant: the key's length is left out of the cost
allocate_valueOnly(cc, node) ==
    [cc EXCEPT !.nBytes = @ + Len(node.value)]

allocate(cc, node) ==
    [cc EXCEPT !.nBytes = @ + Len(node.value) + Len(node.key)]

deallocate(cc, node) ==
    [cc EXCEPT !.nBytes = @ - (Len(node.value) + Len(node.key))]

\* c.cache[key]: the list element holding key (its position in ll)
ElementOf(cc, key) == CHOOSE i \in 1..Len(cc.ll) : cc.ll[i].key = key

\* list.MoveToFront
MoveToFront(ll, i) == <<ll[i]>> \o SubSeq(ll, 1, i - 1) \o SubSeq(ll, i + 1, Len(ll))

\* list.PushFront
PushFront(ll, e) == <<e>> \o ll

\* mutant: a read does not promote the entry
LruGet_noPromote(cc, key) ==
    IF key \in cc.cache
    THEN [c |-> cc, value |-> cc.ll[ElementOf(cc, key)].value, ok |-> TRUE]
    ELSE [c |-> cc, value |-> NoValue, ok |-> FALSE]

\* Cache.Get
LruGet(cc, key) ==
    IF key \in cc.cache
    THEN LET p == ElementOf(cc, key)
         IN  [c     |-> [cc EXCEPT !.ll = MoveToFront(cc.ll, p)],
              value |-> cc.ll[p].value,
              ok    |-> TRUE]
    ELSE [c |-> cc, value |-> NoValue, ok |-> FALSE]

\* Cache.RemoveOldest
RemoveOldest(cc) ==
    IF Len(cc.ll) > 0
    THEN LET kv == cc.ll[Len(cc.ll)]
             c1 == [cc EXCEPT !.ll = SubSeq(cc.ll, 1, Len(cc.ll) - 1)]
             c2 == deallocate(c1, kv)
             c3 == [c2 EXCEPT !.cache = @ \ {kv.key}]
         IN  IF c3.OnEvicted THEN [c3 EXCEPT !.evicted = Append(@, kv)] ELSE c3
    ELSE cc

\* mutant: one eviction at most, as an if in place of the for
EvictWhileOver_once(cc) ==
    IF cc.maxBytes # 0 /\ cc.nBytes > cc.maxBytes THEN RemoveOldest(cc) ELSE cc

\* mutant: the loop stops at the entry at the front, the one just added
RECURSIVE EvictWhileOver_keepsNewest(_)
EvictWhileOver_keepsNewest(cc) ==
    IF cc.maxBytes # 0 /\ cc.nBytes > cc.maxBytes /\ Len(cc.ll) > 1
    THEN EvictWhileOver_keepsNewest(RemoveOldest(cc))
    ELSE cc

\* the for loop closing Cache.Add
RECURSIVE EvictWhileOver(_)
EvictWhileOver(cc) ==
    IF cc.maxBytes # 0 /\ cc.nBytes > cc.maxBytes
    THEN EvictWhileOver(RemoveOldest(cc))
    ELSE cc

\* Cache.Add
LruAdd(cc, key, value) ==
    LET c1 == IF key \in cc.cache
              THEN LET p    == ElementOf(cc, key)
                       kv   == cc.ll[p]
                       d    == deallocate(cc, kv)
                       kv2  == [kv EXCEPT !.value = value]
                       a    == allocate([d EXCEPT !.ll[p] = kv2], kv2)
                   IN  [a EXCEPT !.ll = MoveToFront(a.ll, p)]
              ELSE LET ele == Entry(key, value)
                       pf  == [cc EXCEPT !.ll = PushFront(cc.ll, ele)]
                       a   == allocate(pf, ele)
                   IN  [a EXCEPT !.cache = @ \cup {ele.key}]
    IN  EvictWhileOver(c1)

\* Cache.Len
LruLen(cc) == Len(cc.ll)

-----------------------------------------------------------------------------
(* package consistenthash *)

Digits == <<"0", "1", "2", "3", "4", "5", "6", "7", "8", "9">>

\* strconv.Itoa for i >= 0
RECURSIVE Itoa(_)
Itoa(i) ==
    IF i < 10 THEN <<Digits[i + 1]>>
    ELSE Itoa(i \div 10) \o <<Digits[(i % 10) + 1]>>

\* consistenthash.New; the hash function is the module's hash
MapNew(replicas) ==
    [replicas |-> replicas,
     keys     |-> <<>>,                       \* []int, sorted by Add
     hashMap  |-> [h \in {} |-> <<>>]]        \* map[int]string

RECURSIVE InsertSorted(_, _)
InsertSorted(seq, x) ==
    IF seq = <<>> THEN <<x>>
    ELSE IF x <= Head(seq) THEN <<x>> \o seq
    ELSE <<Head(seq)>> \o InsertSorted(Tail(seq), x)

\* sort.Ints
RECURSIVE SortInts(_)
SortInts(seq) ==
    IF seq = <<>> THEN <<>> ELSE InsertSorted(SortInts(Tail(seq)), Head(seq))

\* the inner loop of Map.Add: the replicas of one node, from replica i on
RECURSIVE AddReplicas(_, _, _)
AddReplicas(m, key, i) ==
    IF i < m.replicas
    THEN LET h == hash[Itoa(i) \o key]
         IN  AddReplicas([m EXCEPT !.hashMap = (h :> key) @@ @,
                                   !.keys    = Append(@, h)],
                         key, i + 1)
    ELSE m

\* the outer loop of Map.Add
RECURSIVE AddNodes(_, _)
AddNodes(m, keys) ==
    IF keys = <<>> THEN m
    ELSE AddNodes(AddReplicas(m, Head(keys), 0), Tail(keys))

\* mutant: the sort closing Map.Add is left out
MapAdd_noSort(m, keys) == AddNodes(m, keys)

\* Map.Add
MapAdd(m, keys) ==
    LET a == AddNodes(m, keys)
    IN  [a EXCEPT !.keys = SortInts(a.keys)]

\* sort.Search(n, f) with f(i) = keys[i] >= h: binary search on [lo, hi), 0-based
RECURSIVE Search(_, _, _, _)
Search(keys, h, lo, hi) ==
    IF lo < hi
    THEN LET mid == (lo + hi) \div 2
         IN  IF ~(keys[mid + 1] >= h)
             THEN Search(keys, h, mid + 1, hi)
             ELSE Search(keys, h, lo, mid)
    ELSE lo

\* mutant: an index past the last virtual hash is not wrapped to the first
MapGet_noWrap(m, key) ==
    IF Len(m.keys) = 0 THEN <<>>
    ELSE LET h   == hash[key]
             idx == Search(m.keys, h, 0, Len(m.keys))
         IN  IF idx = Len(m.keys) THEN <<>> ELSE m.hashMap[m.keys[idx + 1]]

\* Map.Get; "" is the empty sequence
MapGet(m, key) ==
    IF Len(m.keys) = 0 THEN <<>>
    ELSE LET h   == hash[key]
             idx == Search(m.keys, h, 0, Len(m.keys))
         IN  m.hashMap[m.keys[(idx % Len(m.keys)) + 1]]

-----------------------------------------------------------------------------
(* package geecache: ByteView, the cache wrapper, HTTPPool, Group *)

Nil == <<>>

\* cloneBytes: a new slice with the bytes of the given one
cloneBytes(bytes) == [i \in 1..Len(bytes) |-> bytes[i]]

\* ByteView{b: ...}; ByteView{} holds the nil slice
ByteView(b) == [b |-> b]

\* ByteView.ByteSlice
ByteSlice(v) == cloneBytes(v.b)

\* the zero value of type cache holding cacheBytes (set by NewGroup)
NewCacheWrapper(cacheBytes) == [cache |-> Nil, cacheBytes |-> cacheBytes]

\* cache.add, under c.mu from entry to return.  lru.Value.Len() of a ByteView is
\* len(v.b), so the store is handed the bytes.
cacheAdd(w, key, value) ==
    LET c0 == IF w.cache = Nil THEN New(w.cacheBytes, FALSE) ELSE w.cache[1]
    IN  [w EXCEPT !.cache = <<LruAdd(c0, key, value.b)>>]

\* cache.get, under c.mu from entry to return
cacheGet(w, key) ==
    IF w.cache = Nil
    THEN [w |-> w, value |-> ByteView(<<>>), ok |-> FALSE]
    ELSE LET r == LruGet(w.cache[1], key)
         IN  IF r.ok
             THEN [w |-> [w EXCEPT !.cache = <<r.c>>], value |-> ByteView(r.value),
                   ok |-> TRUE]
             ELSE [w |-> [w EXCEPT !.cache = <<r.c>>], value |-> ByteView(<<>>),
                   ok |-> FALSE]

\* "/_geecache/"
defaultBasePath == <<"/", "_", "g", "e", "e", "c", "a", "c", "h", "e", "/">>

\* NewHTTPPool
NewHTTPPool(self) ==
    [self |-> self, basePath |-> defaultBasePath, peers |-> Nil,
     httpGetters |-> [p \in {} |-> Nil]]

\* HTTPPool.Set, under h.mu; the ring is built with replicas virtual nodes per peer
\* (defaultReplicas in the source)
Set(h, peers, replicas) ==
    [h EXCEPT !.peers = <<MapAdd(MapNew(replicas), peers)>>,
              !.httpGetters = [p \in Range(peers) |-> <<[baseURL |-> p \o h.basePath]>>]]

\* h.httpGetters[peer]: nil when the map has no such key
GetterOf(h, peer) ==
    IF peer \in DOMAIN h.httpGetters THEN h.httpGetters[peer] ELSE Nil

\* mutant: the owner is returned also when it is the pool's own address
PickOf_noSelfCheck(h, peer) ==
    IF peer # <<>>
    THEN [getter |-> GetterOf(h, peer), ok |-> TRUE]
    ELSE [getter |-> Nil, ok |-> FALSE]

\* the end of PickPeer, once the ring has given peer for the key
PickOf(h, peer) ==
    IF peer # <<>> /\ peer # h.self
    THEN [getter |-> GetterOf(h, peer), ok |-> TRUE]
    ELSE [getter |-> Nil, ok |-> FALSE]

\* HTTPPool.PickPeer, under h.mu
PickPeer(h, key) ==
    IF h.peers = Nil
    THEN [getter |-> Nil, ok |-> FALSE]
    ELSE PickOf(h, MapGet(h.peers[1], key))

(* strings, net/url *)

Unreserved ==
    {"a", "b", "c", "d", "e", "f", "g", "h", "i", "j", "k", "l", "m", "n", "o", "p",
     "q", "r", "s", "t", "u", "v", "w", "x", "y", "z", "A", "B", "C", "D", "E", "F",
     "0", "1", "2", "3", "4", "5", "6", "7", "8", "9", "-", "_", ".", "~"}

\* the two hex digits of the characters the model escapes
HexOf(ch) ==
    CASE ch = " " -> <<"2", "0">>
      [] ch = "%" -> <<"2", "5">>
      [] ch = "+" -> <<"2", "B">>
      [] ch = "/" -> <<"2", "F">>

Escaped == {" ", "%", "+", "/"}

\* url.QueryEscape: a space becomes "+", an unreserved character stays, any other
\* byte becomes %XX
RECURSIVE QueryEscape(_)
QueryEscape(str) ==
    IF str = <<>> THEN <<>>
    ELSE LET ch == Head(str)
         IN  (IF ch = " " THEN <<"+">>
              ELSE IF ch \in Unreserved THEN <<ch>>
              ELSE <<"%">> \o HexOf(ch))
             \o QueryEscape(Tail(str))

\* the decoding that gives URL.Path: %XX becomes the byte, "+" stays "+"
RECURSIVE PathUnescape(_)
PathUnescape(str) ==
    IF str = <<>> THEN <<>>
    ELSE IF Head(str) = "%" /\ Len(str) >= 3
         THEN LET hx == SubSeq(str, 2, 3)
                  ch == CHOOSE x \in Escaped : HexOf(x) = hx
              IN  <<ch>> \o PathUnescape(SubSeq(str, 4, Len(str)))
         ELSE <<Head(str)>> \o PathUnescape(Tail(str))

\* strings.HasPrefix
HasPrefix(str, prefix) ==
    Len(str) >= Len(prefix) /\ SubSeq(str, 1, Len(prefix)) = prefix

\* strings.Index for a one-character separator: 0 when absent
IndexOf(str, ch) ==
    IF \E i \in 1..Len(str) : str[i] = ch
    THEN CHOOSE i \in 1..Len(str) : str[i] = ch /\ \A j \in 1..(i - 1) : str[j] # ch
    ELSE 0

\* strings.SplitN(str, "/", 2)
SplitN2(str) ==
    LET i == IndexOf(str, "/")
    IN  IF i = 0 THEN <<str>>
        ELSE <<SubSeq(str, 1, i - 1), SubSeq(str, i + 1, Len(str))>>

(* Group.  A call tree is evaluated on a record t: t.groups is, for every node, the
   registry of that process (the package variable groups); t.ev is the sequence of
   calls made so far to the source loaders, to PickPeer and to peers.  The source
   loaders and the network are outside the program and answer as they please, so
   an operator that reaches them yields the set of all its possible outcomes. *)

\* NewGroup's struct literal: peers is nil
NewGroup(name, cacheBytes) ==
    [name |-> name, maincache |-> NewCacheWrapper(cacheBytes), peers |-> Nil]

\* the Group's peers field set to the HTTPPool of node picker (the field is
\* declared in the Group struct; the pool is named by its node)
RegisterPeers(g, picker) == [g EXCEPT !.peers = <<picker>>]

\* GetGroup on node n: groups[name], nil when absent
GetGroup(t, n, name) ==
    IF name \in DOMAIN t.groups[n] THEN <<t.groups[n][name]>> ELSE Nil

ErrLoader(n) == [kind |-> "loader", node |-> n, code |-> 0]
ErrStatus(code) == [kind |-> "status", node |-> <<>>, code |-> code]
ErrNet == [kind |-> "net", node |-> <<>>, code |-> 0]
ErrNoPeer == [kind |-> "nopeer", node |-> <<>>, code |-> 0]

\* what g.getter.Get(key) may return on node n: bytes and a nil error, or an error
LoaderValues == {<<1>>, <<1, 2>>}
LoaderResults(n) ==
    {[bytes |-> v, err |-> Nil] : v \in LoaderValues}
        \cup {[bytes |-> <<>>, err |-> <<ErrLoader(n)>>]}

\* one call of the call tree: ev is "loader" (g.getter.Get on node n), "pick"
\* (PickPeer on node n) or "fetch" (PeerGetter.Get called by node n); val is the
\* bytes it returned, err its error (for "pick": nil when a remote peer was picked)
Event(ev, n, key, val, err) ==
    [ev |-> ev, node |-> n, key |-> key, val |-> val, err |-> err]

Log(t, e) == [t EXCEPT !.ev = Append(@, e)]

\* Group.populateCache
populateCache(t, n, name, key, value) ==
    [t EXCEPT !.groups[n][name].maincache = cacheAdd(@, key, value)]

\* mutant: the loaded value is returned and not stored
getLocally_noPopulate(t, n, name, key) ==
    {LET t1 == Log(t, Event("loader", n, key, r.bytes, r.err))
     IN  IF r.err # Nil
         THEN [t |-> t1, value |-> ByteView(<<>>), err |-> r.err]
         ELSE [t |-> t1, value |-> ByteView(cloneBytes(r.bytes)), err |-> Nil]
     : r \in LoaderResults(n)}

\* mutant: a failed load stores the zero ByteView
getLocally_storesFailure(t, n, name, key) ==
    {LET t1 == Log(t, Event("loader", n, key, r.bytes, r.err))
     IN  IF r.err # Nil
         THEN [t |-> populateCache(t1, n, name, key, ByteView(<<>>)),
               value |-> ByteView(<<>>), err |-> r.err]
         ELSE LET value == ByteView(cloneBytes(r.bytes))
              IN  [t |-> populateCache(t1, n, name, key, value), value |-> value,
                   err |-> Nil]
     : r \in LoaderResults(n)}

\* Group.getLocally
getLocally(t, n, name, key) ==
    {LET t1 == Log(t, Event("loader", n, key, r.bytes, r.err))
     IN  IF r.err # Nil
         THEN [t |-> t1, value |-> ByteView(<<>>), err |-> r.err]
         ELSE LET value == ByteView(cloneBytes(r.bytes))
              IN  [t |-> populateCache(t1, n, name, key, value), value |-> value,
                   err |-> Nil]
     : r \in LoaderResults(n)}

RECURSIVE GroupGet(_, _, _, _)
RECURSIVE load(_, _, _, _)
RECURSIVE getFromPeer(_, _, _, _, _)
RECURSIVE httpGetterGet(_, _, _, _, _)
RECURSIVE ServeHTTP(_, _, _)

\* mutant: a failed Get is answered like a successful one, with the zero value
ServeHTTP_okOnError(t, n, path) ==
    LET h == pools[n]
    IN  IF ~HasPrefix(path, h.basePath)
        THEN {[t |-> t, status |-> 0, body |-> <<>>]}
        ELSE LET parts == SplitN2(SubSeq(path, Len(h.basePath) + 1, Len(path)))
             IN  IF Len(parts) # 2
                 THEN {[t |-> t, status |-> 400, body |-> <<>>]}
                 ELSE IF GetGroup(t, n, parts[1]) = Nil
                 THEN {[t |-> t, status |-> 404, body |-> <<>>]}
                 ELSE {[t |-> r.t, status |-> 200, body |-> ByteSlice(r.value)]
                       : r \in GroupGet(t, n, parts[1], parts[2])}

\* HTTPPool.ServeHTTP on node n for a request with URL.Path path.  A panic of the
\* handler is status 0: the connection is closed without a response.
ServeHTTP(t, n, path) ==
    LET h == pools[n]
    IN  IF ~HasPrefix(path, h.basePath)
        THEN {[t |-> t, status |-> 0, body |-> <<>>]}
        ELSE LET parts == SplitN2(SubSeq(path, Len(h.basePath) + 1, Len(path)))
             IN  IF Len(parts) # 2
                 THEN {[t |-> t, status |-> 400, body |-> <<>>]}
                 ELSE LET groupName == parts[1]
                          key       == parts[2]
                          group     == GetGroup(t, n, groupName)
                      IN  IF group = Nil
                          THEN {[t |-> t, status |-> 404, body |-> <<>>]}
                          ELSE {IF r.err # Nil
                                THEN [t |-> r.t, status |-> 500, body |-> <<>>]
                                ELSE [t |-> r.t, status |-> 200,
                                      body |-> ByteSlice(r.value)]
                                : r \in GroupGet(t, n, groupName, key)}

\* httpGetter.Get called on node n.  http.Get sends the request to the host the URL
\* names: the URL up to its first "/" (the model's addresses hold no "/").
httpGetterGet(t, n, getter, group, key) ==
    LET newUrl == getter.baseURL \o QueryEscape(group) \o <<"/">> \o QueryEscape(key)
        slash  == IndexOf(newUrl, "/")
        host   == SubSeq(newUrl, 1, slash - 1)
        path   == PathUnescape(SubSeq(newUrl, slash, Len(newUrl)))
        failed == [t |-> t, bytes |-> <<>>, err |-> <<ErrNet>>]
    IN  IF host \notin DOMAIN pools
        THEN {failed}
        ELSE {failed} \cup UNION
             {{[t |-> rsp.t, bytes |-> <<>>, err |-> <<ErrNet>>],
               IF rsp.status = 0
               THEN [t |-> rsp.t, bytes |-> <<>>, err |-> <<ErrNet>>]
               ELSE IF rsp.status # 200
               THEN [t |-> rsp.t, bytes |-> <<>>, err |-> <<ErrStatus(rsp.status)>>]
               ELSE [t |-> rsp.t, bytes |-> rsp.body, err |-> Nil]}
              : rsp \in ServeHTTP(t, host, path)}

\* Group.getFromPeer
getFromPeer(t, n, peer, name, key) ==
    {LET t1 == Log(r.t, Event("fetch", n, key, r.bytes, r.err))
     IN  IF r.err # Nil
         THEN [t |-> t1, value |-> ByteView(<<>>), err |-> r.err]
         ELSE [t |-> t1, value |-> ByteView(cloneBytes(r.bytes)), err |-> r.err]
     : r \in httpGetterGet(t, n, peer, name, key)}

\* mutant: a failed fetch is returned to the caller, with no local load
load_noFallback(t, n, name, key) ==
    LET g == t.groups[n][name]
    IN  IF g.peers # Nil
        THEN LET pick == PickPeer(pools[g.peers[1]], key)
                 t1   == Log(t, Event("pick", n, key, <<>>,
                                       IF pick.ok THEN Nil ELSE <<ErrNoPeer>>))
             IN  IF pick.ok
                 THEN {[t |-> f.t, value |-> f.value, err |-> f.err]
                       : f \in getFromPeer(t1, n, pick.getter[1], name, key)}
                 ELSE getLocally(t1, n, name, key)
        ELSE getLocally(t, n, name, key)

\* mutant: a value fetched from a peer is stored in the local cache as well
load_cachesRemote(t, n, name, key) ==
    LET g == t.groups[n][name]
    IN  IF g.peers # Nil
        THEN LET pick == PickPeer(pools[g.peers[1]], key)
                 t1   == Log(t, Event("pick", n, key, <<>>, IF pick.ok THEN Nil ELSE <<ErrNoPeer>>))
             IN  IF pick.ok
                 THEN UNION {IF f.err = Nil
                             THEN {[t |-> populateCache(f.t, n, name, key, f.value),
                                    value |-> f.value, err |-> Nil]}
                             ELSE getLocally(f.t, n, name, key)
                             : f \in getFromPeer(t1, n, pick.getter[1], name, key)}
                 ELSE getLocally(t1, n, name, key)
        ELSE getLocally(t, n, name, key)

\* Group.load
load(t, n, name, key) ==
    LET g == t.groups[n][name]
    IN  IF g.peers # Nil
        THEN LET pick == PickPeer(pools[g.peers[1]], key)
                 t1   == Log(t, Event("pick", n, key, <<>>, IF pick.ok THEN Nil ELSE <<ErrNoPeer>>))
             IN  IF pick.ok
                 THEN UNION {IF f.err = Nil
                             THEN {[t |-> f.t, value |-> f.value, err |-> Nil]}
                             ELSE getLocally(f.t, n, name, key)
                             : f \in getFromPeer(t1, n, pick.getter[1], name, key)}
                 ELSE getLocally(t1, n, name, key)
        ELSE getLocally(t, n, name, key)

\* mutant: the local store is not consulted
GroupGet_skipsCache(t, n, name, key) == load(t, n, name, key)

\* Group.Get on node n
GroupGet(t, n, name, key) ==
    LET r == cacheGet(t.groups[n][name].maincache, key)
    IN  IF r.ok
        THEN {[t |-> [t EXCEPT !.groups[n][name].maincache = r.w],
               value |-> r.value, err |-> Nil]}
        ELSE load(t, n, name, key)

-----------------------------------------------------------------------------
(* SpecRing: two Maps with one replica count and one hash function, each built by
   its own sequence of Add calls, and Get calls made on both *)

RingNodes == {<<"A">>, <<"B">>}
RingKeys == {<<"k">>}

\* the argument lists of one Add call
NodeLists == {<<n>> : n \in RingNodes} \cup {p \in RingNodes \X RingNodes : p[1] # p[2]}

Labels(nodes, replicas) == {Itoa(i) \o n : i \in 0..(replicas - 1), n \in nodes}

\* a Map, the node identifiers registered in it, and the Add calls made on it
NewRing(replicas) == [m |-> MapNew(replicas), nodes |-> {}, adds |-> <<>>]

DoAdd(r, keys) ==
    [m |-> MapAdd(r.m, keys), nodes |-> r.nodes \cup Range(keys),
     adds |-> Append(r.adds, keys)]

NoGet == [key |-> NoKey, r1 |-> <<>>, r2 |-> <<>>]

\* the variables of the other specifications, at rest
LruIdle ==
    /\ c = New(0, FALSE)
    /\ touched = <<>>
    /\ lruLast = [op |-> "New", key |-> NoKey, value |-> NoValue, ok |-> FALSE,
                  atBack |-> FALSE, rescued |-> NoKey]

RingIdle ==
    /\ ring1 = NewRing(0)
    /\ ring2 = NewRing(0)
    /\ ringLast = NoGet

\* last: the last Group.Get a client made: the node and the key, whether the key was
\* in the node's store, the results, the calls of its call tree in order, and
\* whether the client's previous call was a Get of the same key on the same node
\* that missed and was answered by that node's source loader (then with its value)
NoCall ==
    [node |-> <<>>, key |-> NoKey, hit |-> FALSE, value |-> ByteView(<<>>),
     err |-> Nil, ev |-> <<>>, reload |-> Nil]

ClusterIdle ==
    /\ groups = [n \in {} |-> Nil]
    /\ pools = [n \in {} |-> Nil]
    /\ last = NoCall

clusterVars == <<groups, pools, last>>

\* PickPeer's results
NoPeer == [getter |-> Nil, ok |-> FALSE]

\* a goroutine of SpecPool that has made no call yet.  op is the call and pc the
\* statement it is at; peers and i are Set's argument and loop index; key and peer
\* are PickPeer's argument and local variable; result is what PickPeer returned.
\* id numbers the Set calls in the order they took mu; floor is the last Set that
\* had returned when the PickPeer was called; ringBy and gettersBy are the Set
\* calls that had assigned h.peers and h.httpGetters when PickPeer read them.
NoProc ==
    [op |-> "none", pc |-> "done", peers |-> <<>>, i |-> 0, key |-> NoKey,
     peer |-> <<>>, result |-> NoPeer, id |-> 0, floor |-> 0, ringBy |-> 0,
     gettersBy |-> 0]

\* poolSets: the argument lists of the Set calls by id, the ids of the calls that
\* returned, the calls that assigned the fields last, and the number of calls made
NoSets == [lists |-> <<>>, returned |-> {}, ringBy |-> 0, gettersBy |-> 0, calls |-> 0]

PoolIdle ==
    /\ pool = NewHTTPPool(<<>>)
    /\ poolMu = Nil
    /\ poolProc = [p \in {} |-> NoProc]
    /\ poolSets = NoSets

poolVars == <<pool, poolMu, poolProc, poolSets>>

\* the variables of the specifications of interleaved calls, and their rest state
\* served: the node and the URL path of the request, the status and the body of
\* the response (status 0: the handler panicked), the calls the handler made, and
\* the value the node's store held for the request's key when the request came,
\* and the number of requests made so far
NoRequest ==
    [node |-> <<>>, path |-> <<>>, status |-> 0, body |-> <<>>, ev |-> <<>>,
     stored |-> Nil, n |-> 0]

ServeIdle == served = NoRequest

\* a goroutine of SpecConc that has made no call yet.  op is the call ("add" and
\* "get" on the cache, "Get" on the Group) and pc the statement it is at; key and
\* value are the arguments (for Get, value is what the loader returned); result is
\* what get returned and expect what it returns when no call interleaves; loads
\* counts the loader calls of the Get.
NoCaller ==
    [op |-> "none", pc |-> "done", key |-> NoKey, value |-> ByteView(<<>>),
     result |-> [value |-> ByteView(<<>>), ok |-> FALSE],
     expect |-> [value |-> ByteView(<<>>), ok |-> FALSE], loads |-> 0]

\* shadow.w: the cache as cache.add and cache.get leave it when run whole, in the
\* order the calls took mu; constructed counts the lru.New calls, calls the calls
\* made, gets the Group.Get calls and loads the loader calls
NoShadow(cacheBytes) ==
    [w |-> NewCacheWrapper(cacheBytes), constructed |-> 0, calls |-> 0, gets |-> 0,
     loads |-> 0]

ConcIdle ==
    /\ maincache = NewCacheWrapper(0)
    /\ cacheMu = Nil
    /\ caller = [p \in {} |-> NoCaller]
    /\ shadow = NoShadow(0)

concVars == <<maincache, cacheMu, caller, shadow>>

\* no Group.Get made yet.  value is the bytes of the ByteView returned, read when
\* the call returns; stored is the bytes the store was given for the key; after is
\* the kinds of buffer related to the stored value that were written to before
NoObserved ==
    [key |-> NoKey, ok |-> FALSE, hit |-> FALSE, value |-> <<>>, stored |-> <<>>,
     after |-> {}]

AliasIdle ==
    /\ heap = <<>>
    /\ aliasCache = NewCacheWrapper(0)
    /\ backing = [k \in {} |-> 0]
    /\ observed = NoObserved

aliasVars == <<heap, aliasCache, backing, observed>>

stepVars == <<poolVars, served, concVars, aliasVars>>
StepIdle == PoolIdle /\ ServeIdle /\ ConcIdle /\ AliasIdle

lruVars == <<c, touched, lruLast>>
ringVars == <<ring1, ring2, ringLast>>

RingInit ==
    /\ \E replicas \in 0..MaxReplicas :
          /\ hash \in [Labels(RingNodes, replicas) \cup RingKeys -> 0..MaxHash]
          /\ ring1 = NewRing(replicas)
          /\ ring2 = NewRing(replicas)
    /\ ringLast = NoGet
    /\ LruIdle
    /\ ClusterIdle
    /\ StepIdle

RingAdd1(keys) ==
    /\ Len(ring1.adds) < MaxAddCalls
    /\ ring1' = DoAdd(ring1, keys)
    /\ ringLast' = NoGet
    /\ UNCHANGED <<ring2, hash, lruVars, clusterVars, stepVars>>

RingAdd2(keys) ==
    /\ Len(ring2.adds) < MaxAddCalls
    /\ ring2' = DoAdd(ring2, keys)
    /\ ringLast' = NoGet
    /\ UNCHANGED <<ring1, hash, lruVars, clusterVars, stepVars>>

RingGet(key) ==
    /\ ringLast' = [key |-> key, r1 |-> MapGet(ring1.m, key), r2 |-> MapGet(ring2.m, key)]
    /\ UNCHANGED <<ring1, ring2, hash, lruVars, clusterVars, stepVars>>

RingNext ==
    \/ \E keys \in NodeLists : RingAdd1(keys)
    \/ \E keys \in NodeLists : RingAdd2(keys)
    \/ \E key \in RingKeys : RingGet(key)

SpecRing == RingInit /\ [][RingNext]_vars

-----------------------------------------------------------------------------
(* SpecLru: any sequence of Add, Get and RemoveOldest on one lru.Cache *)

Touch(seq, key) == <<key>> \o SelectSeq(seq, LAMBDA k : k # key)

\* lruLast.op is the call; key and value its arguments (for Get, value is the
\* result); ok is Get's second result, for Add whether the key was present before,
\* for RemoveOldest whether there was an entry to remove.  atBack: the Get found its
\* key at the back of a list of two or more entries.  rescued: the key of the call
\* before this one when that call was such a Get.
Rescued == IF lruLast.op = "Get" /\ lruLast.atBack THEN lruLast.key ELSE NoKey

LruInit ==
    /\ \E M \in 0..MaxBytes : c = New(M, TRUE)
    /\ touched = <<>>
    /\ lruLast = [op |-> "New", key |-> NoKey, value |-> NoValue, ok |-> FALSE,
                  atBack |-> FALSE, rescued |-> NoKey]
    /\ hash = [s \in {} |-> 0]
    /\ RingIdle
    /\ ClusterIdle
    /\ StepIdle

DoLruAdd(key, value) ==
    /\ c' = LruAdd([c EXCEPT !.evicted = <<>>], key, value)
    /\ touched' = Touch(touched, key)
    /\ lruLast' = [op |-> "Add", key |-> key, value |-> value, ok |-> key \in c.cache,
                   atBack |-> FALSE, rescued |-> Rescued]
    /\ UNCHANGED <<hash, ringVars, clusterVars, stepVars>>

DoLruGet(key) ==
    LET r == LruGet([c EXCEPT !.evicted = <<>>], key)
    IN  /\ c' = r.c
        /\ touched' = IF r.ok THEN Touch(touched, key) ELSE touched
        /\ lruLast' = [op |-> "Get", key |-> key, value |-> r.value, ok |-> r.ok,
                       atBack |-> /\ Len(c.ll) >= 2
                                  /\ c.ll[Len(c.ll)].key = key,
                       rescued |-> NoKey]
        /\ UNCHANGED <<hash, ringVars, clusterVars, stepVars>>

DoRemoveOldest ==
    /\ c' = RemoveOldest([c EXCEPT !.evicted = <<>>])
    /\ touched' = touched
    /\ lruLast' = [op |-> "RemoveOldest", key |-> NoKey, value |-> NoValue,
                   ok |-> c.ll # <<>>, atBack |-> FALSE, rescued |-> Rescued]
    /\ UNCHANGED <<hash, ringVars, clusterVars, stepVars>>

LruNext ==
    \/ \E key \in LruKeys, value \in Values : DoLruAdd(key, value)
    \/ \E key \in LruKeys : DoLruGet(key)
    \/ DoRemoveOldest

SpecLru == LruInit /\ [][LruNext]_vars

-----------------------------------------------------------------------------
(* SpecCluster: two processes, each with one Group named "score" and one HTTPPool.
   Every pool was Set with the same peer list, each node's self address is its
   entry in the list, and the Groups either all have their node's pool as their
   PeerPicker or all have none.  Clients call Group.Get on either node; the source loaders and the network
   answer as they please. *)

Nodes == {<<"A">>, <<"B">>}
PeerList == <<<<"A">>, <<"B">>>>
GroupName == <<"s", "c", "o", "r", "e">>

\* the keys clients ask for: "+" reaches a peer's handler as it was given to
\* httpGetter.Get (escaped to %2B and decoded again), " " reaches it as "+"
TopKeys == {<<"+">>, <<" ">>}

\* the key a peer's handler sees when httpGetter.Get was given key
ServerKey(key) == PathUnescape(QueryEscape(key))

AllKeys == TopKeys \cup {ServerKey(k) : k \in TopKeys}

\* the cluster as wired at start-up: NewGroup and NewHTTPPool on every node, Set
\* with the common peer list, and either every Group registered with its node's
\* pool or none (peers stays nil)
ClusterInit ==
    /\ hash \in [Labels(Nodes, PoolReplicas) \cup AllKeys -> 0..MaxPoolHash]
    /\ \E cacheBytes \in 0..MaxCacheBytes, members \in {Nodes, {<<"A">>}},
          registered \in BOOLEAN :
          groups = [n \in Nodes |->
                      IF n \in members
                      THEN (GroupName :>
                              IF registered
                              THEN RegisterPeers(NewGroup(GroupName, cacheBytes), n)
                              ELSE NewGroup(GroupName, cacheBytes))
                      ELSE [name \in {} |-> Nil]]
    /\ pools = [n \in Nodes |-> Set(NewHTTPPool(n), PeerList, PoolReplicas)]
    /\ last = NoCall
    /\ LruIdle
    /\ RingIdle
    /\ StepIdle

\* the call l missed the local store and was answered by the node's own loader
MissLoaded(l) ==
    /\ ~l.hit
    /\ l.err = Nil
    /\ \E i \in 1..Len(l.ev) :
          /\ l.ev[i].ev = "loader" /\ l.ev[i].node = l.node /\ l.ev[i].key = l.key
          /\ l.ev[i].err = Nil

\* a client calls Group.Get(key) on node n
ClientGet(n, key) ==
    /\ GetGroup([groups |-> groups], n, GroupName) # Nil
    /\ \E r \in GroupGet([groups |-> groups, ev |-> <<>>], n, GroupName, key) :
          /\ groups' = r.t.groups
          /\ last' = [node |-> n, key |-> key,
                      hit |-> cacheGet(groups[n][GroupName].maincache, key).ok,
                      value |-> r.value, err |-> r.err, ev |-> r.t.ev,
                      reload |-> IF MissLoaded(last) /\ last.node = n /\ last.key = key
                                 THEN <<last.value>> ELSE Nil]
          /\ UNCHANGED <<pools, hash, lruVars, ringVars, stepVars>>

ClusterNext ==
    \E n \in Nodes, key \in TopKeys : ClientGet(n, key)

SpecCluster == ClusterInit /\ [][ClusterNext]_vars

-----------------------------------------------------------------------------
(* SpecPool: goroutines calling Set and PickPeer on one HTTPPool, interleaved
   statement by statement.  h.mu.Lock() waits until mu is free. *)

PoolSelf == <<"A">>
PoolKeys == {<<"k">>}
PoolProcs == 1..MaxPoolProcs

\* the peer lists given to Set: none, the pool itself and another, a third peer,
\* and the empty address
PoolLists == {<<>>, <<<<"A">>, <<"B">>>>, <<<<"C">>>>, <<<<>>>>}

\* mutant: Lock returns at once, whoever holds mu
MuFree_always(mu) == TRUE

\* h.mu.Lock() returns when no goroutine holds mu
MuFree(mu) == mu = Nil

poolRest == <<lruVars, ringVars, clusterVars, served, concVars, aliasVars>>

PoolInit ==
    /\ hash \in [Labels(UNION {Range(l) : l \in PoolLists}, PoolReplicas) \cup PoolKeys
                   -> 0..MaxPoolHash]
    /\ pool = NewHTTPPool(PoolSelf)
    /\ poolMu = Nil
    /\ poolProc = [p \in PoolProcs |-> NoProc]
    /\ poolSets = NoSets
    /\ LruIdle
    /\ RingIdle
    /\ ClusterIdle
    /\ ServeIdle
    /\ ConcIdle
    /\ AliasIdle

\* goroutine p calls h.Set(peers...)
CallSet(p, peers) ==
    /\ poolProc[p].pc = "done"
    /\ poolSets.calls < MaxPoolCalls
    /\ poolProc' = [poolProc EXCEPT ![p] =
                      [NoProc EXCEPT !.op = "Set", !.pc = "lock", !.peers = peers]]
    /\ poolSets' = [poolSets EXCEPT !.calls = @ + 1]
    /\ UNCHANGED <<pool, poolMu, hash, poolRest>>

\* goroutine p calls h.PickPeer(key)
CallPick(p, key) ==
    /\ poolProc[p].pc = "done"
    /\ poolSets.calls < MaxPoolCalls
    /\ poolProc' = [poolProc EXCEPT ![p] =
                      [NoProc EXCEPT !.op = "Pick", !.pc = "lock", !.key = key,
                                     !.floor = IF poolSets.returned = {} THEN 0
                                               ELSE CHOOSE x \in poolSets.returned :
                                                      \A y \in poolSets.returned : y <= x]]
    /\ poolSets' = [poolSets EXCEPT !.calls = @ + 1]
    /\ UNCHANGED <<pool, poolMu, hash, poolRest>>

\* Set: h.mu.Lock()
SetLock(p) ==
    /\ poolProc[p].op = "Set" /\ poolProc[p].pc = "lock"
    /\ MuFree(poolMu)
    /\ poolMu' = <<p>>
    /\ poolSets' = [poolSets EXCEPT !.lists = Append(@, poolProc[p].peers)]
    /\ poolProc' = [poolProc EXCEPT ![p].pc = "new", ![p].id = Len(poolSets.lists) + 1]
    /\ UNCHANGED <<pool, hash, poolRest>>

\* Set: h.peers = consistenthash.New(defaultReplicas, nil)
SetNew(p) ==
    /\ poolProc[p].op = "Set" /\ poolProc[p].pc = "new"
    /\ pool' = [pool EXCEPT !.peers = <<MapNew(PoolReplicas)>>]
    /\ poolSets' = [poolSets EXCEPT !.ringBy = poolProc[p].id]
    /\ poolProc' = [poolProc EXCEPT ![p].pc = "add"]
    /\ UNCHANGED <<poolMu, hash, poolRest>>

\* Set: h.peers.Add(peers...)
SetAdd(p) ==
    /\ poolProc[p].op = "Set" /\ poolProc[p].pc = "add"
    /\ pool' = [pool EXCEPT !.peers = <<MapAdd(@[1], poolProc[p].peers)>>]
    /\ poolProc' = [poolProc EXCEPT ![p].pc = "make"]
    /\ UNCHANGED <<poolMu, poolSets, hash, poolRest>>

\* Set: h.httpGetters = make(map[string]*httpGetter)
SetMake(p) ==
    /\ poolProc[p].op = "Set" /\ poolProc[p].pc = "make"
    /\ pool' = [pool EXCEPT !.httpGetters = [x \in {} |-> Nil]]
    /\ poolSets' = [poolSets EXCEPT !.gettersBy = poolProc[p].id]
    /\ poolProc' = [poolProc EXCEPT ![p].pc = "loop", ![p].i = 1]
    /\ UNCHANGED <<poolMu, hash, poolRest>>

\* Set: one turn of the loop over peers
SetLoop(p) ==
    /\ poolProc[p].op = "Set" /\ poolProc[p].pc = "loop"
    /\ poolProc[p].i <= Len(poolProc[p].peers)
    /\ LET peer == poolProc[p].peers[poolProc[p].i]
       IN  pool' = [pool EXCEPT !.httpGetters =
                      (peer :> <<[baseURL |-> peer \o pool.basePath]>>) @@ @]
    /\ poolProc' = [poolProc EXCEPT ![p].i = @ + 1]
    /\ UNCHANGED <<poolMu, poolSets, hash, poolRest>>

\* Set: the loop is over, the deferred h.mu.Unlock() runs and Set returns
SetUnlock(p) ==
    /\ poolProc[p].op = "Set" /\ poolProc[p].pc = "loop"
    /\ poolProc[p].i > Len(poolProc[p].peers)
    /\ poolMu' = Nil
    /\ poolSets' = [poolSets EXCEPT !.returned = @ \cup {poolProc[p].id}]
    /\ poolProc' = [poolProc EXCEPT ![p].pc = "done"]
    /\ UNCHANGED <<pool, hash, poolRest>>

\* PickPeer: h.mu.Lock()
PickLock(p) ==
    /\ poolProc[p].op = "Pick" /\ poolProc[p].pc = "lock"
    /\ MuFree(poolMu)
    /\ poolMu' = <<p>>
    /\ poolProc' = [poolProc EXCEPT ![p].pc = "ring"]
    /\ UNCHANGED <<pool, poolSets, hash, poolRest>>

\* PickPeer: the test of h.peers and peer := h.peers.Get(key)
PickRing(p) ==
    /\ poolProc[p].op = "Pick" /\ poolProc[p].pc = "ring"
    /\ poolProc' = [poolProc EXCEPT ![p] =
          IF pool.peers = Nil
          THEN [@ EXCEPT !.pc = "unlock", !.result = NoPeer]
          ELSE [@ EXCEPT !.pc = "handle", !.peer = MapGet(pool.peers[1], poolProc[p].key),
                         !.ringBy = poolSets.ringBy, !.gettersBy = poolSets.ringBy]]
    /\ UNCHANGED <<pool, poolMu, poolSets, hash, poolRest>>

\* PickPeer: the test of peer and the read of h.httpGetters[peer]
PickHandle(p) ==
    /\ poolProc[p].op = "Pick" /\ poolProc[p].pc = "handle"
    /\ poolProc' = [poolProc EXCEPT ![p].pc = "unlock",
                                    ![p].result = PickOf(pool, poolProc[p].peer),
                                    ![p].gettersBy = poolSets.gettersBy]
    /\ UNCHANGED <<pool, poolMu, poolSets, hash, poolRest>>

\* PickPeer: the deferred h.mu.Unlock() runs and PickPeer returns
PickUnlock(p) ==
    /\ poolProc[p].op = "Pick" /\ poolProc[p].pc = "unlock"
    /\ poolMu' = Nil
    /\ poolProc' = [poolProc EXCEPT ![p].pc = "done"]
    /\ UNCHANGED <<pool, poolSets, hash, poolRest>>

PoolNext ==
    \/ \E p \in PoolProcs, peers \in PoolLists : CallSet(p, peers)
    \/ \E p \in PoolProcs, key \in PoolKeys : CallPick(p, key)
    \/ \E p \in PoolProcs : SetLock(p)
    \/ \E p \in PoolProcs : SetNew(p)
    \/ \E p \in PoolProcs : SetAdd(p)
    \/ \E p \in PoolProcs : SetMake(p)
    \/ \E p \in PoolProcs : SetLoop(p)
    \/ \E p \in PoolProcs : SetUnlock(p)
    \/ \E p \in PoolProcs : PickLock(p)
    \/ \E p \in PoolProcs : PickRing(p)
    \/ \E p \in PoolProcs : PickHandle(p)
    \/ \E p \in PoolProcs : PickUnlock(p)

SpecPool == PoolInit /\ [][PoolNext]_vars

-----------------------------------------------------------------------------
(* SpecServe: the cluster of SpecCluster with stores without a limit, and clients
   sending requests of any path to the nodes' handlers *)

\* the remainders of the request paths after the prefix: "score", "score/+",
\* "score/", "x/+", "/+", "score/+/+" and the empty one
Remainders ==
    {GroupName, GroupName \o <<"/", "+">>, GroupName \o <<"/">>, <<"x", "/", "+">>,
     <<"/", "+">>, GroupName \o <<"/", "+", "/", "+">>, <<>>}

\* the request paths: the prefix and a remainder, and one path without the prefix
Paths == {defaultBasePath \o r : r \in Remainders} \cup {<<"/", "x">>}

\* the keys the requests name
ServeKeys == {<<"+">>, <<>>, <<"+", "/", "+">>}

ServeInit ==
    /\ hash \in [Labels(Nodes, PoolReplicas) \cup ServeKeys -> 0..MaxPoolHash]
    /\ \E members \in {Nodes, {<<"A">>}}, registered \in BOOLEAN :
          groups = [n \in Nodes |->
                      IF n \in members
                      THEN (GroupName :>
                              IF registered
                              THEN RegisterPeers(NewGroup(GroupName, 0), n)
                              ELSE NewGroup(GroupName, 0))
                      ELSE [name \in {} |-> Nil]]
    /\ pools = [n \in Nodes |-> Set(NewHTTPPool(n), PeerList, PoolReplicas)]
    /\ last = NoCall
    /\ served = NoRequest
    /\ LruIdle
    /\ RingIdle
    /\ PoolIdle
    /\ ConcIdle
    /\ AliasIdle

\* the value node n's store holds for the key the path names, nil when the path
\* names no Group of the node or the store has no such key
StoredFor(n, path) ==
    LET rest  == SubSeq(path, Len(defaultBasePath) + 1, Len(path))
        slash == IndexOf(rest, "/")
        name  == SubSeq(rest, 1, slash - 1)
        key   == SubSeq(rest, slash + 1, Len(rest))
    IN  IF slash = 0 \/ name \notin DOMAIN groups[n] THEN Nil
        ELSE LET r == cacheGet(groups[n][name].maincache, key)
             IN  IF r.ok THEN <<r.value>> ELSE Nil

\* a client sends a request for path to node n's handler
HttpRequest(n, path) ==
    /\ served.n < MaxRequests
    /\ \E rsp \in ServeHTTP([groups |-> groups, ev |-> <<>>], n, path) :
          /\ groups' = rsp.t.groups
          /\ served' = [node |-> n, path |-> path, status |-> rsp.status,
                        body |-> rsp.body, ev |-> rsp.t.ev,
                        stored |-> IF HasPrefix(path, defaultBasePath)
                                   THEN StoredFor(n, path) ELSE Nil,
                        n |-> served.n + 1]
    /\ UNCHANGED <<pools, hash, last, lruVars, ringVars, poolVars, concVars, aliasVars>>

ServeNext ==
    \E n \in Nodes, path \in Paths : HttpRequest(n, path)

SpecServe == ServeInit /\ [][ServeNext]_vars

-----------------------------------------------------------------------------
(* SpecConc: goroutines calling add and get on the cache of one Group, and Get on
   the Group, interleaved statement by statement.  The Group has no peers
   registered, so a Get that misses goes to getLocally.  c.mu.Lock() waits until
   mu is free. *)

Callers == 1..MaxCallers
ConcKeys == {<<"a">>, <<"b">>}
ConcValues == {ByteView(<<1>>)}
ConcNode == <<"A">>

\* mutant: Lock returns at once, whoever holds mu
CacheMuFree_always(mu) == TRUE

\* c.mu.Lock() returns when no goroutine holds mu
CacheMuFree(mu) == mu = Nil

\* Group.Get after maincache.get: return on a hit, load on a miss
AfterGet(ok) == IF ok THEN "done" ELSE "loader"

\* mutant: a failed load is tried again
AfterLoader_retry(err) == IF err # Nil THEN "loader" ELSE "add.lock"

\* Group.getLocally after g.getter.Get: return the error, or populateCache
AfterLoader(err) == IF err # Nil THEN "done" ELSE "add.lock"

concRest == <<hash, lruVars, ringVars, clusterVars, poolVars, served, aliasVars>>

ConcInit ==
    /\ \E cacheBytes \in {0, MaxCacheBytes} :
          /\ maincache = NewCacheWrapper(cacheBytes)
          /\ shadow = NoShadow(cacheBytes)
    /\ cacheMu = Nil
    /\ caller = [p \in Callers |-> NoCaller]
    /\ hash = [x \in {} |-> 0]
    /\ LruIdle
    /\ RingIdle
    /\ ClusterIdle
    /\ PoolIdle
    /\ ServeIdle
    /\ AliasIdle

\* goroutine p calls c.add(key, value)
ConcAdd(p, key, value) ==
    /\ caller[p].pc = "done"
    /\ shadow.calls < MaxConcCalls
    /\ caller' = [caller EXCEPT ![p] =
                    [NoCaller EXCEPT !.op = "add", !.pc = "add.lock", !.key = key,
                                     !.value = value]]
    /\ shadow' = [shadow EXCEPT !.calls = @ + 1]
    /\ UNCHANGED <<maincache, cacheMu, concRest>>

\* goroutine p calls c.get(key)
ConcGet(p, key) ==
    /\ caller[p].pc = "done"
    /\ shadow.calls < MaxConcCalls
    /\ caller' = [caller EXCEPT ![p] =
                    [NoCaller EXCEPT !.op = "get", !.pc = "get.lock", !.key = key]]
    /\ shadow' = [shadow EXCEPT !.calls = @ + 1]
    /\ UNCHANGED <<maincache, cacheMu, concRest>>

\* goroutine p calls g.Get(key)
ConcGroupGet(p, key) ==
    /\ caller[p].pc = "done"
    /\ shadow.calls < MaxConcCalls
    /\ caller' = [caller EXCEPT ![p] =
                    [NoCaller EXCEPT !.op = "Get", !.pc = "get.lock", !.key = key]]
    /\ shadow' = [shadow EXCEPT !.calls = @ + 1, !.gets = @ + 1]
    /\ UNCHANGED <<maincache, cacheMu, concRest>>

\* cache.get: c.mu.Lock()
GetLockStep(p) ==
    /\ caller[p].pc = "get.lock"
    /\ CacheMuFree(cacheMu)
    /\ cacheMu' = <<p>>
    /\ LET r == cacheGet(shadow.w, caller[p].key)
       IN  /\ shadow' = [shadow EXCEPT !.w = r.w]
           /\ caller' = [caller EXCEPT ![p].pc = "get.test",
                                       ![p].expect = [value |-> r.value, ok |-> r.ok]]
    /\ UNCHANGED <<maincache, concRest>>

\* cache.get: the test of c.cache, and the return when it is nil
GetTestStep(p) ==
    /\ caller[p].pc = "get.test"
    /\ caller' = [caller EXCEPT ![p].pc = IF maincache.cache = Nil THEN "get.unlock"
                                          ELSE "get.call"]
    /\ UNCHANGED <<maincache, cacheMu, shadow, concRest>>

\* cache.get: c.cache.Get(key) and the result
GetCallStep(p) ==
    /\ caller[p].pc = "get.call"
    /\ LET r == LruGet(maincache.cache[1], caller[p].key)
       IN  /\ maincache' = [maincache EXCEPT !.cache = <<r.c>>]
           /\ caller' = [caller EXCEPT ![p].pc = "get.unlock",
                             ![p].result = [value |-> IF r.ok THEN ByteView(r.value)
                                                      ELSE ByteView(<<>>),
                                            ok |-> r.ok]]
    /\ UNCHANGED <<cacheMu, shadow, concRest>>

\* cache.get: the deferred c.mu.Unlock() and the return, to Group.Get if it called
GetUnlockStep(p) ==
    /\ caller[p].pc = "get.unlock"
    /\ cacheMu' = Nil
    /\ caller' = [caller EXCEPT ![p].pc = IF caller[p].op = "get" THEN "done"
                                          ELSE AfterGet(caller[p].result.ok)]
    /\ UNCHANGED <<maincache, shadow, concRest>>

\* Group.getLocally: g.getter.Get(key) and the clone of its bytes
LoaderStep(p) ==
    /\ caller[p].pc = "loader"
    /\ \E r \in LoaderResults(ConcNode) :
          caller' = [caller EXCEPT ![p].pc = AfterLoader(r.err),
                                   ![p].value = ByteView(cloneBytes(r.bytes)),
                                   ![p].loads = @ + 1]
    /\ shadow' = [shadow EXCEPT !.loads = @ + 1]
    /\ UNCHANGED <<maincache, cacheMu, concRest>>

\* cache.add: c.mu.Lock()
AddLockStep(p) ==
    /\ caller[p].pc = "add.lock"
    /\ CacheMuFree(cacheMu)
    /\ cacheMu' = <<p>>
    /\ shadow' = [shadow EXCEPT !.w = cacheAdd(@, caller[p].key, caller[p].value)]
    /\ caller' = [caller EXCEPT ![p].pc = "add.test"]
    /\ UNCHANGED <<maincache, concRest>>

\* cache.add: c.cache is nil, c.cache = lru.New(c.cacheBytes, nil)
AddNewStep(p) ==
    /\ caller[p].pc = "add.test"
    /\ maincache.cache = Nil
    /\ maincache' = [maincache EXCEPT !.cache = <<New(maincache.cacheBytes, FALSE)>>]
    /\ shadow' = [shadow EXCEPT !.constructed = @ + 1]
    /\ caller' = [caller EXCEPT ![p].pc = "add.call"]
    /\ UNCHANGED <<cacheMu, concRest>>

\* cache.add: c.cache is not nil
AddSkipStep(p) ==
    /\ caller[p].pc = "add.test"
    /\ maincache.cache # Nil
    /\ caller' = [caller EXCEPT ![p].pc = "add.call"]
    /\ UNCHANGED <<maincache, cacheMu, shadow, concRest>>

\* cache.add: c.cache.Add(key, value)
AddCallStep(p) ==
    /\ caller[p].pc = "add.call"
    /\ maincache' = [maincache EXCEPT !.cache =
                       <<LruAdd(@[1], caller[p].key, caller[p].value.b)>>]
    /\ caller' = [caller EXCEPT ![p].pc = "add.unlock"]
    /\ UNCHANGED <<cacheMu, shadow, concRest>>

\* cache.add: the deferred c.mu.Unlock() and the return
AddUnlockStep(p) ==
    /\ caller[p].pc = "add.unlock"
    /\ cacheMu' = Nil
    /\ caller' = [caller EXCEPT ![p].pc = "done"]
    /\ UNCHANGED <<maincache, shadow, concRest>>

ConcNext ==
    \/ \E p \in Callers, key \in ConcKeys, value \in ConcValues : ConcAdd(p, key, value)
    \/ \E p \in Callers, key \in ConcKeys : ConcGet(p, key)
    \/ \E p \in Callers, key \in ConcKeys : ConcGroupGet(p, key)
    \/ \E p \in Callers : GetLockStep(p)
    \/ \E p \in Callers : GetTestStep(p)
    \/ \E p \in Callers : GetCallStep(p)
    \/ \E p \in Callers : GetUnlockStep(p)
    \/ \E p \in Callers : LoaderStep(p)
    \/ \E p \in Callers : AddLockStep(p)
    \/ \E p \in Callers : AddNewStep(p)
    \/ \E p \in Callers : AddSkipStep(p)
    \/ \E p \in Callers : AddCallStep(p)
    \/ \E p \in Callers : AddUnlockStep(p)

SpecConc == ConcInit /\ [][ConcNext]_vars

-----------------------------------------------------------------------------
(* SpecAlias: the byte arrays behind the slices.  A []byte is the address of its
   array in heap; a ByteView holds the address of b.  The source loader and the
   callers of Group.Get keep the slices they hold and write to them at will. *)

AliasKeys == {<<"a">>, <<"b">>}
AliasNode == <<"A">>

\* one array: its bytes; held, when code outside the package holds a slice of it;
\* from, how that slice was obtained ("loader", "ByteSlice"); of, the address of the
\* stored array it was copied to or from; mutated, when it was written to
Cell(bytes) ==
    [bytes |-> bytes, held |-> FALSE, from |-> "make", of |-> 0, mutated |-> FALSE]

\* mutant: the slice itself is returned
cloneBytesAt_shares(h, p) == [heap |-> h, p |-> p]

\* cloneBytes on the heap: make a new array, copy, return the new slice
cloneBytesAt(h, p) ==
    [heap |-> Append(h, Cell(cloneBytes(h[p].bytes))), p |-> Len(h) + 1]

\* ByteView.ByteSlice on the heap, v.b an address
ByteSliceAt(h, v) == cloneBytesAt(h, v.b)

\* the slice at p is handed to code outside the package
Hand(h, p, from, of) ==
    [h EXCEPT ![p].held = TRUE, ![p].from = from, ![p].of = of]

\* addresses of the slices the loader has returned so far
LoaderHeld(h) == {a \in 1..Len(h) : h[a].held /\ h[a].from = "loader"}

\* what g.getter.Get(key) may return: a slice of a new array, a slice it has
\* returned before, or an error
LoaderSlices(h) ==
    {[heap |-> Append(h, Cell(v)), p |-> Len(h) + 1, err |-> Nil] : v \in LoaderValues}
        \cup {[heap |-> h, p |-> a, err |-> Nil] : a \in LoaderHeld(h)}
        \cup {[heap |-> h, p |-> 0, err |-> <<ErrLoader(AliasNode)>>]}

\* the kinds of held buffer related to the array at p that were written to
MutatedOf(h, p) ==
    {h[a].from : a \in {x \in 1..Len(h) : h[x].held /\ h[x].mutated /\ h[x].of = p}}

aliasRest == <<hash, lruVars, ringVars, clusterVars, poolVars, served, concVars>>

AliasInit ==
    /\ heap = <<>>
    /\ \E cacheBytes \in {0, MaxCacheBytes} : aliasCache = NewCacheWrapper(cacheBytes)
    /\ backing = [k \in AliasKeys |-> 0]
    /\ observed = NoObserved
    /\ hash = [x \in {} |-> 0]
    /\ LruIdle
    /\ RingIdle
    /\ ClusterIdle
    /\ PoolIdle
    /\ ServeIdle
    /\ ConcIdle

\* Group.Get(key) on a Group without peers: maincache.get, and on a miss getLocally:
\* the loader, cloneBytes of its slice, populateCache
AliasGet(key) ==
    /\ LET g == cacheGet(aliasCache, key)
       IN  IF g.ok
           THEN /\ aliasCache' = g.w
                /\ observed' = [key |-> key, ok |-> TRUE, hit |-> TRUE,
                                value |-> heap[backing[key]].bytes,
                                stored |-> g.value.b,
                                after |-> MutatedOf(heap, backing[key])]
                /\ UNCHANGED <<heap, backing>>
           ELSE \E r \in LoaderSlices(heap) :
                  IF r.err # Nil
                  THEN /\ aliasCache' = g.w
                       /\ observed' = [NoObserved EXCEPT !.key = key]
                       /\ UNCHANGED <<heap, backing>>
                  ELSE LET cl == cloneBytesAt(r.heap, r.p)
                           value == ByteView(r.heap[r.p].bytes)
                       IN  /\ Len(cl.heap) <= MaxHeap
                           /\ heap' = Hand(cl.heap, r.p, "loader", cl.p)
                           /\ aliasCache' = cacheAdd(g.w, key, value)
                           /\ backing' = [backing EXCEPT ![key] = cl.p]
                           /\ observed' = [key |-> key, ok |-> TRUE, hit |-> FALSE,
                                           value |-> heap'[cl.p].bytes,
                                           stored |-> value.b, after |-> {}]
    /\ UNCHANGED aliasRest

\* the holder of the ByteView last returned for key calls ByteSlice on it
AliasByteSlice(key) ==
    /\ backing[key] # 0
    /\ Len(heap) + 1 <= MaxHeap
    /\ LET cl == ByteSliceAt(heap, [b |-> backing[key]])
       IN  heap' = Hand(cl.heap, cl.p, "ByteSlice", backing[key])
    /\ UNCHANGED <<aliasCache, backing, observed, aliasRest>>

\* code outside the package writes byte b at index i of a slice it holds
AliasMutate(a, i, b) ==
    /\ a \in 1..Len(heap)
    /\ heap[a].held
    /\ i \in 1..Len(heap[a].bytes)
    /\ heap[a].bytes[i] # b
    /\ heap' = [heap EXCEPT ![a].bytes[i] = b, ![a].mutated = TRUE]
    /\ UNCHANGED <<aliasCache, backing, observed, aliasRest>>

AliasNext ==
    \/ \E key \in AliasKeys : AliasGet(key)
    \/ \E key \in AliasKeys : AliasByteSlice(key)
    \/ \E a \in 1..MaxHeap, i \in 1..MaxValLen, b \in Bytes : AliasMutate(a, i, b)

SpecAlias == AliasInit /\ [][AliasNext]_vars

-----------------------------------------------------------------------------
(* Claims about package lru, checked under SpecLru *)

RECURSIVE SumCost(_)
SumCost(ll) ==
    IF ll = <<>> THEN 0
    ELSE Len(Head(ll).key) + Len(Head(ll).value) + SumCost(Tail(ll))

\* position of key in the order of last touches (1 = touched last)
TouchRank(key) == CHOOSE i \in 1..Len(touched) : touched[i] = key

\* C1: with maxBytes = M > 0, after every Add (a new key or an overwrite, a value of
\* any length) nBytes <= M.
C1_CapacityAfterAdd ==
    (lruLast.op = "Add" /\ c.maxBytes > 0) => c.nBytes <= c.maxBytes

\* an Add into a bounded cache that had to evict two entries or more
C1_Witness ==
    /\ lruLast.op = "Add" /\ c.maxBytes > 0
    /\ Len(c.evicted) >= 2

\* C2: in every reachable state nBytes is the exact sum of len(key) + value.Len()
\* over the entries in the store, and the map holds exactly the keys of the list.
C2_ExactAccounting ==
    /\ c.nBytes = SumCost(c.ll)
    /\ c.cache = {c.ll[i].key : i \in 1..Len(c.ll)}
    /\ \A i, j \in 1..Len(c.ll) : c.ll[i].key = c.ll[j].key => i = j

\* an overwrite by a value of another length that forced an eviction and left entries
C2_Witness ==
    /\ lruLast.op = "Add" /\ lruLast.ok
    /\ c.evicted # <<>>
    /\ c.ll # <<>>
    /\ c.nBytes > 0

\* C3: a successful Get(K), like an Add of K that keeps K, leaves K at the front of the
\* list; and whatever a call evicted was, at each eviction, the live entry touched
\* longest ago: every key evicted by the last call was touched before every key still
\* in the store, and the evictions of one call come in order of age.
C3_EvictionFollowsRecency ==
    /\ (lruLast.op = "Get" /\ lruLast.ok) => Head(c.ll).key = lruLast.key
    /\ (lruLast.op = "Add" /\ lruLast.key \in c.cache) => Head(c.ll).key = lruLast.key
    /\ \A i \in 1..Len(c.evicted) :
          /\ \A k \in c.cache : TouchRank(k) < TouchRank(c.evicted[i].key)
          /\ \A j \in 1..Len(c.evicted) :
                i < j => TouchRank(c.evicted[j].key) < TouchRank(c.evicted[i].key)
    /\ \A i, j \in 1..Len(c.ll) :
          i < j => TouchRank(c.ll[i].key) < TouchRank(c.ll[j].key)

\* a Get found K least recently used, and the eviction that followed removed another
\* entry and kept K
C3_Witness ==
    /\ lruLast.op \in {"Add", "RemoveOldest"}
    /\ c.evicted # <<>>
    /\ lruLast.rescued # NoKey
    /\ lruLast.rescued \in c.cache
    /\ lruLast.rescued # lruLast.key

\* C19: with maxBytes = M > 0, an Add whose own cost len(key) + value.Len() exceeds
\* M, of a new key or of a key present, leaves the store empty (Len() = 0,
\* nBytes = 0, Get(key) absent); an Add whose own cost is at most M leaves key
\* present with the given value.
C19_OversizeAddEmptiesStore ==
    (lruLast.op = "Add" /\ c.maxBytes > 0) =>
        IF Len(lruLast.key) + Len(lruLast.value) > c.maxBytes
        THEN /\ LruLen(c) = 0
             /\ c.nBytes = 0
             /\ ~LruGet(c, lruLast.key).ok
        ELSE /\ LruGet(c, lruLast.key).ok
             /\ LruGet(c, lruLast.key).value = lruLast.value

\* an oversize Add that overwrote a key of a store holding other entries too
C19_Witness ==
    /\ lruLast.op = "Add"
    /\ c.maxBytes > 0
    /\ Len(lruLast.key) + Len(lruLast.value) > c.maxBytes
    /\ lruLast.ok
    /\ Len(c.evicted) >= 2
    /\ c.evicted[Len(c.evicted)].key = lruLast.key

-----------------------------------------------------------------------------
(* Claims about package geecache, checked under SpecCluster *)

\* the store of node n's Group in the registries g
StoreOf(g, n) == g[n][GroupName].maincache

\* node n's store in g holds an entry for key
Holds(g, n, key) ==
    /\ GroupName \in DOMAIN g[n]
    /\ StoreOf(g, n).cache # Nil
    /\ key \in StoreOf(g, n).cache[1].cache

\* the entries (key and value) of node n's store in g
Entries(g, n) ==
    IF GroupName \in DOMAIN g[n] /\ StoreOf(g, n).cache # Nil
    THEN Range(StoreOf(g, n).cache[1].ll)
    ELSE {}

\* the node the ring every pool holds gives for key
Owner(key) == MapGet(pools[<<"A">>].peers[1], key)

\* the i-th call of l's call tree was made by the Get itself (by the node the client
\* called, for the key the client gave) and is of the given kind
Top(l, i, kind) ==
    /\ l.ev[i].ev = kind
    /\ l.ev[i].node = l.node
    /\ l.ev[i].key = l.key

LoaderCalls(l) == {i \in 1..Len(l.ev) : l.ev[i].ev = "loader"}

\* C4 as stated: for every capacity, a Get of the key a node has just loaded from
\* its source loader on a miss returns the same value and calls no loader.
C4_AnyCapacityNoReload ==
    last.reload # Nil =>
        /\ last.err = Nil
        /\ last.value = last.reload[1]
        /\ LoaderCalls(last) = {}

\* C4 amended: the same, when the capacity is 0 (no limit) or the entry's cost
\* len(key) + len(value) is at most the capacity.
C4_NoReloadWhenEntryFits ==
    (/\ last.reload # Nil
     /\ LET cap == StoreOf(groups, last.node).cacheBytes
        IN  cap = 0 \/ Len(last.key) + Len(last.reload[1].b) <= cap)
    => /\ last.err = Nil
       /\ last.value = last.reload[1]
       /\ LoaderCalls(last) = {}
       /\ last.hit

\* a Get answered from the store right after the Get that loaded the key, in a
\* store with a capacity, for a key another node owns
C4_Witness ==
    /\ last.reload # Nil
    /\ last.hit
    /\ StoreOf(groups, last.node).cacheBytes = MaxCacheBytes
    /\ Len(last.value.b) = MaxValLen
    /\ Owner(last.key) # last.node

\* C5: a Get that finds the key in the local store returns the stored value and a
\* nil error, and calls neither PickPeer, nor a peer, nor a source loader.
C5_HitIsLocal ==
    last.hit =>
        /\ last.err = Nil
        /\ last.ev = <<>>
        /\ LET ll == StoreOf(groups, last.node).cache[1].ll
           IN  ll # <<>> /\ ll[1] = Entry(last.key, last.value.b)

\* a hit on a node that does not own the key
C5_Witness ==
    /\ last.hit
    /\ PickPeer(pools[last.node], last.key).ok

\* C6: when the fetch from the picked peer fails, the Get calls the node's source
\* loader next; if the loader succeeds the caller gets its value and a nil error,
\* and in no case the peer's error.
C6_FailedFetchFallsBack ==
    \A i \in 1..Len(last.ev) :
        (Top(last, i, "fetch") /\ last.ev[i].err # Nil) =>
            /\ Top(last, 1, "pick") /\ last.ev[1].err = Nil
            /\ ~last.hit
            /\ i + 1 = Len(last.ev)
            /\ Top(last, i + 1, "loader")
            /\ last.err # last.ev[i].err
            /\ last.ev[i + 1].err = Nil =>
                  /\ last.err = Nil
                  /\ last.value = ByteView(last.ev[i + 1].val)

\* the peer answered with a status other than 200, and the local loader succeeded
C6_Witness ==
    \E i \in 1..Len(last.ev) :
        /\ Top(last, i, "fetch")
        /\ last.ev[i].err # Nil /\ last.ev[i].err[1].kind = "status"
        /\ i < Len(last.ev)
        /\ last.ev[i + 1].err = Nil
        /\ last.err = Nil

\* C7 as stated: a loader failure anywhere in the request, on the node called or on
\* the peer the request was forwarded to, is the caller's error and is followed by
\* no other loader call; and a request whose loads all failed adds no entry.
C7_AnyLoaderFailureReachesCaller ==
    [][/\ \A i \in LoaderCalls(last') :
             last'.ev[i].err # Nil =>
                 /\ last'.err = last'.ev[i].err
                 /\ \A j \in LoaderCalls(last') : j <= i
       /\ (LoaderCalls(last') # {} /\ \A i \in LoaderCalls(last') : last'.ev[i].err # Nil)
             => \A n \in Nodes : Entries(groups', n) = Entries(groups, n)]_vars

\* C7 amended: a failure of the loader of the node that was called is the caller's
\* error and the last call of the request; a failure of a peer's loader reaches the
\* node that fetched from it as a failed fetch, after which that node calls its own
\* loader; and a request whose loads all failed leaves every store with the entries it had.
C7_LocalLoaderFailureReachesCaller ==
    [][/\ \A i \in LoaderCalls(last') :
             last'.ev[i].err # Nil =>
                 IF Top(last', i, "loader")
                 THEN /\ last'.err = last'.ev[i].err
                      /\ i = Len(last'.ev)
                 ELSE /\ i + 2 <= Len(last'.ev)
                      /\ last'.ev[i + 1].ev = "fetch"
                      /\ last'.ev[i + 1].err \in {<<ErrStatus(500)>>, <<ErrNet>>}
                      /\ last'.ev[i + 2].ev = "loader"
                      /\ last'.ev[i + 2].node = last'.ev[i + 1].node
                      /\ last'.ev[i + 2].key = last'.ev[i + 1].key
       /\ (LoaderCalls(last') # {} /\ \A i \in LoaderCalls(last') : last'.ev[i].err # Nil)
             => \A n \in Nodes : Entries(groups', n) = Entries(groups, n)]_vars

\* the owning peer's loader failed, the requesting node's loader failed after it
C7_Witness ==
    /\ last.err = <<ErrLoader(last.node)>>
    /\ \E i \in LoaderCalls(last) :
          /\ last.ev[i].node # last.node
          /\ last.ev[i].err # Nil
          /\ i + 2 = Len(last.ev)
          /\ last.ev[i + 1].err = <<ErrStatus(500)>>
          /\ Top(last, i + 2, "loader")

\* C8: when the fetch from the picked peer succeeds, the caller gets the fetched
\* bytes, the requesting node's store is as it was before the Get, and the
\* requesting node's loader is not called during the Get.
C8_RemoteFetchLeavesStoreAlone ==
    [][\A i \in 1..Len(last'.ev) :
          (Top(last', i, "fetch") /\ last'.ev[i].err = Nil) =>
              /\ last'.err = Nil
              /\ last'.value = ByteView(last'.ev[i].val)
              /\ groups'[last'.node] = groups[last'.node]
              /\ \A j \in LoaderCalls(last') : last'.ev[j].node # last'.node]_vars

C20_ForwardedAtMostOnce ==
    /\ \A i \in 1..Len(last.ev) :
          (last.ev[i].ev = "pick" /\ ~Top(last, i, "pick")) => last.ev[i].err # Nil
    /\ Cardinality({i \in 1..Len(last.ev) : last.ev[i].ev = "fetch"}) <= 1
    /\ \A n \in Nodes :
          Cardinality({i \in LoaderCalls(last) : last.ev[i].node = n}) <= 1

-----------------------------------------------------------------------------
(* Claims about HTTPPool, checked under SpecPool *)

\* the pool as the Set call numbered id leaves it when nothing interleaves
SetResult(id) == Set(NewHTTPPool(PoolSelf), poolSets.lists[id], PoolReplicas)

\* the goroutines whose PickPeer has returned
Picked == {p \in PoolProcs : poolProc[p].op = "Pick" /\ poolProc[p].pc = "done"}

\* C13: Set replaces ring and handles as one: every PickPeer reads the ring and the
\* handle mapping of one Set call, not of a call before the last Set that had
\* returned when the PickPeer was called, and returns what that Set's pool gives:
\* a peer of that Set's list; and whenever mu is free the pool is as the last Set
\* that took mu made it.
C13_SetIsAtomic ==
    /\ \A p \in Picked :
          LET r == poolProc[p]
          IN  /\ r.ringBy = r.gettersBy
              /\ r.ringBy >= r.floor
              /\ r.result = IF r.ringBy = 0 THEN NoPeer
                            ELSE PickPeer(SetResult(r.ringBy), r.key)
              /\ r.result.ok =>
                    \E peer \in Range(poolSets.lists[r.ringBy]) :
                        r.result.getter = <<[baseURL |-> peer \o defaultBasePath]>>
    /\ (poolMu = Nil /\ poolSets.lists # <<>>) => pool = SetResult(Len(poolSets.lists))

\* a PickPeer called while the second Set was running, after the first had
\* returned, that returned a peer of the second list
C13_Witness ==
    \E p \in Picked :
        /\ poolProc[p].floor = 1
        /\ poolProc[p].ringBy = 2
        /\ poolProc[p].result.ok
        /\ poolSets.lists[1] # poolSets.lists[2]
        /\ poolSets.lists[1] # <<>>

\* C14: PickPeer returns (nil, false) when Set was never called, when the ring is
\* empty or gives the empty identifier, or when the ring's owner of the key is the
\* pool's own address; otherwise it returns (handle, true) with the non-nil handle
\* whose base URL is the owner's.
C14_PickPeerCases ==
    \A p \in Picked :
        LET r     == poolProc[p]
            ring  == IF r.ringBy = 0 THEN Nil
                     ELSE <<MapAdd(MapNew(PoolReplicas), poolSets.lists[r.ringBy])>>
            owner == IF ring = Nil THEN <<>> ELSE MapGet(ring[1], r.key)
        IN  IF ring = Nil \/ ring[1].keys = <<>> \/ owner = <<>> \/ owner = PoolSelf
            THEN r.result = NoPeer
            ELSE /\ r.result.ok
                 /\ r.result.getter # Nil
                 /\ r.result.getter[1].baseURL = owner \o defaultBasePath
                 /\ r.result.getter[1].baseURL # PoolSelf \o defaultBasePath

\* a PickPeer on a ring of the pool itself and another peer, for a key the pool
\* itself owns
C14_Witness ==
    \E p \in Picked :
        /\ poolProc[p].ringBy # 0
        /\ Len(poolSets.lists[poolProc[p].ringBy]) = 2
        /\ poolProc[p].peer = PoolSelf
        /\ poolProc[p].result = NoPeer

-----------------------------------------------------------------------------
(* Claims about HTTPPool.ServeHTTP, checked under SpecServe *)

\* C15: a request whose path starts with the prefix is answered 400 exactly when
\* the rest of the path is not a namespace name, a "/" and a key (the key being
\* all that follows the first "/"), 404 exactly when the name is no Group of the
\* node, 500 exactly when the Group's Get failed, which it does when the source
\* loader of the node failed, and 200 with the value's bytes otherwise; the
\* handler never panics.
C15_StatusCases ==
    (served.n > 0 /\ HasPrefix(served.path, defaultBasePath)) =>
        LET rest   == SubSeq(served.path, Len(defaultBasePath) + 1, Len(served.path))
            slash  == IndexOf(rest, "/")
            known  == SubSeq(rest, 1, slash - 1) \in DOMAIN groups[served.node]
            failed == /\ served.ev # <<>>
                      /\ served.ev[Len(served.ev)].ev = "loader"
                      /\ served.ev[Len(served.ev)].node = served.node
                      /\ served.ev[Len(served.ev)].err # Nil
        IN  /\ served.status \in {400, 404, 500, 200}
            /\ served.status = 400 <=> \A i \in 1..Len(rest) : rest[i] # "/"
            /\ served.status = 404 <=> (slash # 0 /\ ~known)
            /\ served.status = 500 <=> (slash # 0 /\ known /\ failed)
            /\ served.status = 200 =>
                  served.body = IF served.stored # Nil THEN served.stored[1].b
                                ELSE served.ev[Len(served.ev)].val
            /\ served.status # 200 => served.body = <<>>

\* a request for a key with a "/" in it, answered from the store
C15_Witness ==
    /\ served.status = 200
    /\ served.path = defaultBasePath \o GroupName \o <<"/", "+", "/", "+">>
    /\ served.stored # Nil
    /\ served.body # <<>>

-----------------------------------------------------------------------------
(* Claims about package consistenthash, checked under SpecRing *)

\* no virtual node of one registered node hashes to the value of a virtual node of
\* another registered node
NoCollision(r) ==
    \A a, b \in r.nodes : \A i, j \in 0..(r.m.replicas - 1) :
        a # b => hash[Itoa(i) \o a] # hash[Itoa(j) \o b]

C11_KeysCountDistinctNodes ==
    \A r \in {ring1, ring2} :
        /\ Len(r.m.keys) = r.m.replicas * Cardinality(r.nodes)
        /\ \A i \in 1..(Len(r.m.keys) - 1) : r.m.keys[i] <= r.m.keys[i + 1]

\* the smallest element of a non-empty set of integers
Least(S) == CHOOSE x \in S : \A y \in S : x <= y

-----------------------------------------------------------------------------
(* Claims about the cache wrapper and Group.Get under interleaving, checked under
   SpecConc *)

\* goroutine p is between c.mu.Lock() and the deferred c.mu.Unlock()
InCache(p) ==
    caller[p].pc \in {"get.test", "get.call", "get.unlock",
                      "add.test", "add.call", "add.unlock"}

\* goroutine p has returned from a call of operation op
Returned(p, op) == caller[p].op = op /\ caller[p].pc = "done"

(* C16: a Group.Get calls the loader at most once, so N Group.Get calls invoke it
   at most N times in any interleaving; in some interleaving N calls for one
   uncached key all miss before any has populated the store, and the loader is
   invoked N times (C16_Witness). *)
C16_LoaderAtMostOncePerGet ==
    /\ \A p \in Callers : caller[p].loads <= 1
    /\ \A p \in Callers : caller[p].op # "Get" => caller[p].loads = 0
    /\ shadow.loads <= shadow.gets

C16_Witness ==
    /\ \A p \in Callers :
          /\ caller[p].op = "Get"
          /\ caller[p].pc = "add.lock"
          /\ caller[p].key = <<"a">>
          /\ caller[p].loads = 1
    /\ shadow.loads = MaxCallers
    /\ shadow.constructed = 0
    /\ maincache.cache = Nil

(* C18: under any interleaving of add and get on one cache wrapper, at most one
   call is between Lock and Unlock, mu is held exactly while a call is there and is
   free after every return, the lru.Cache is constructed at most once, and whenever
   mu is free the wrapper is what the calls, run one at a time in the order they
   took the lock, leave behind; every get returns what it returns in that order. *)
C18_WrapperIsExclusive ==
    /\ \A p, q \in Callers : InCache(p) /\ InCache(q) => p = q
    /\ \A p \in Callers : InCache(p) <=> cacheMu = <<p>>
    /\ shadow.constructed <= 1
    /\ cacheMu = Nil => maincache = shadow.w
    /\ \A p \in Callers :
          caller[p].op \in {"get", "Get"}
              /\ caller[p].pc \notin {"get.lock", "get.test", "get.call"}
            => caller[p].result = caller[p].expect

C18_Witness ==
    /\ shadow.calls = 2
    /\ shadow.constructed = 1
    /\ cacheMu = Nil
    /\ maincache.cacheBytes = 0
    /\ \E p, q \in Callers :
          /\ Returned(p, "get")
          /\ ~caller[p].result.ok
          /\ Returned(q, "add")
          /\ caller[q].key = caller[p].key
          /\ LruGet(maincache.cache[1], caller[q].key).ok

-----------------------------------------------------------------------------
(* Claims about ByteView and the buffers behind it, checked under SpecAlias *)

\* key is in the store
AliasHolds(key) == cacheGet(aliasCache, key).ok

\* the bytes the store was given for key
AliasStored(key) == cacheGet(aliasCache, key).value.b

(* C17: whatever is written to a slice obtained from ByteView.ByteSlice or to a
   slice the loader returned, the array behind every stored ByteView keeps the
   bytes it was stored with, and every Group.Get returns a ByteView holding the
   bytes the store was given for the key. *)
C17_StoredBytesNeverChange ==
    /\ \A key \in AliasKeys :
          AliasHolds(key) => heap[backing[key]].bytes = AliasStored(key)
    /\ observed.ok => observed.value = observed.stored

C17_Witness ==
    /\ observed.ok
    /\ observed.hit
    /\ observed.after = {"loader", "ByteSlice"}
    /\ \E a \in LoaderHeld(heap) :
          /\ heap[a].of = backing[observed.key]
          /\ heap[a].mutated
          /\ heap[a].bytes # observed.value

====
